---- MODULE Spec2Model ----
(***************************************************************************)
(* The did:tdw log-replay verifier (DidResolver) and the resolve_did entry *)
(* point that drives it.                                                   *)
(*                                                                         *)
(* Strings are sequences of character codes: 0..9 are the decimal digits,  *)
(* DASH is '-', codes above DASH are the other characters.  An Option is  *)
(* a sequence of length at most one: <<>> is None and <<x>> is Some(x).    *)
(***************************************************************************)
EXTENDS Integers, Sequences, FiniteSets, TLC

(* ------------------------------- bounds -------------------------------- *)
\* number of distinct JWK public keys that appear in logs
NumKeys == 2
\* number of distinct SHA-256 digests
HashSpace == 3
\* latest reading of the wall clock (whole seconds)
MaxClock == 2
\* number of entries of the longest log
MaxLog == 2
\* number of distinct DID documents
NumDocs == 2
\* number of distinct instants a DateTime tells apart within one second
TicksPerSecond == 2
\* number of characters of the longest path of a DID
MaxPathLen == 2
\* number of lines of the longest log body
MaxLines == 3

(* ------------------------------ strings -------------------------------- *)
None == <<>>
Some(x) == <<x>>

DASH == 10

\* the decimal string of a natural number below 100, as format!("{}", n)
\* writes it
Decimal(n) == IF n < 10 THEN <<n>> ELSE <<(n \div 10) % 10, n % 10>>

\* str::split(sep): the pieces between separators; always at least one piece
RECURSIVE SplitFrom(_, _, _)
SplitFrom(s, sep, cur) ==
    IF s = <<>> THEN <<cur>>
    ELSE IF Head(s) = sep THEN <<cur>> \o SplitFrom(Tail(s), sep, <<>>)
    ELSE SplitFrom(Tail(s), sep, Append(cur, Head(s)))

Split(s, sep) == SplitFrom(s, sep, <<>>)

\* str::parse::<u64>(): None unless the string is a non-empty run of digits
RECURSIVE DigitsValue(_, _)
DigitsValue(s, acc) ==
    IF s = <<>> THEN acc ELSE DigitsValue(Tail(s), acc * 10 + Head(s))

ParseU64(s) ==
    IF s # <<>> /\ \A i \in 1..Len(s) : s[i] \in 0..9
    THEN Some(DigitsValue(s, 0))
    ELSE None

(* ------------------------ multihash and base58 ------------------------- *)
SHA2_256 == 18

\* Sha256::digest: a fixed function of the bytes into the digest space
\* (a checksum in which the weight of a byte alternates between 1 and 2,
\* counted from the last byte)
Sha256(bytes) ==
    LET n == Len(bytes)
        sum[i \in 0..n] ==
            IF i = 0 THEN 0
            ELSE (sum[i - 1] + (1 + ((n - i) % 2)) * bytes[i]) % HashSpace
    IN sum[n]

\* Multihash::wrap(code, digest).to_bytes(): code, digest length, digest
MultihashBytes(code, digest) == <<code, 32, digest>>

\* to_base58(): one character outside the digits and '-' per byte
ToBase58(bytes) == [i \in 1..Len(bytes) |-> DASH + 1 + bytes[i]]

\* hash_key / generate_key_hash: base58 multihash of the JWK string bytes
KeyBytes(key_jwk) == <<key_jwk>>

hash_key(key_jwk) == ToBase58(MultihashBytes(SHA2_256, Sha256(KeyBytes(key_jwk))))

(* ----------------------------- data model ------------------------------ *)
\* DIDParameters::method of a fresh resolver: the characters of "did:tdw:0.4"
DefaultMethod == <<0, 4>>

Keys == 1..NumKeys
Docs == 1..NumDocs

\* DIDDocument: a pass-through payload, told apart by its id
DIDDocument(d) == [id |-> <<d>>]

\* DIDDocument::new(did): the document whose id is the given string
DIDDocument_new(did) == [id |-> did]

\* Proof: verification_method is a JWK; proof_value is 1 for a signature that
\* verifies under that key over the entry without its proofs, 0 for one that
\* does not
Proof(k, v) == [verification_method |-> k, proof_value |-> v]

DIDParameters(method, scid, update_keys, prerotation, next_key_hashes, portable, witness, deactivated, ttl) ==
    [method |-> method, scid |-> scid, update_keys |-> update_keys,
     prerotation |-> prerotation, next_key_hashes |-> next_key_hashes,
     portable |-> portable, witness |-> witness, deactivated |-> deactivated,
     ttl |-> ttl]

DIDLogEntry(version_id, version_time, parameters, state, proof) ==
    [version_id |-> version_id, version_time |-> version_time,
     parameters |-> parameters, state |-> state, proof |-> proof]

(* --------------------------- canonical JSON ---------------------------- *)
\* JCS output as a sequence of tokens: member names and punctuation are the
\* codes from 100 up, string characters and numbers are themselves.
JString(s) == <<100>> \o s \o <<100>>
JBool(b) == IF b THEN <<101>> ELSE <<102>>
JNull == <<103>>

JStrings(list) ==
    LET cat[i \in 0..Len(list)] ==
            IF i = 0 THEN <<>> ELSE cat[i - 1] \o JString(list[i])
    IN cat[Len(list)]

JStringArray(list) == <<104>> \o JStrings(list) \o <<105>>

\* a member that serde skips when the Option is None
JSkippable(name, opt, value) == IF opt = None THEN <<>> ELSE <<name>> \o value

\* DIDParameters under Serialize + JCS: members in sorted name order; scid is
\* written as null when None, every other Option is skipped when None
CanonParameters(p) ==
       JSkippable(110, p.deactivated, JBool(p.deactivated = Some(TRUE)))
    \o <<111>> \o JString(p.method)
    \o JSkippable(112, p.next_key_hashes,
                  JStringArray(IF p.next_key_hashes = None THEN <<>> ELSE p.next_key_hashes[1]))
    \o JSkippable(113, p.portable, JBool(p.portable = Some(TRUE)))
    \o JSkippable(114, p.prerotation, JBool(p.prerotation = Some(TRUE)))
    \o <<115>> \o (IF p.scid = None THEN JNull ELSE JString(p.scid[1]))
    \o JSkippable(116, p.ttl, p.ttl)
    \o JSkippable(117, p.update_keys,
                  JStringArray(IF p.update_keys = None THEN <<>>
                               ELSE [i \in 1..Len(p.update_keys[1]) |-> KeyBytes(p.update_keys[1][i])]))
    \o JSkippable(118, p.witness, p.witness)

CanonDocument(doc) == <<120>> \o JString(doc.id)

\* A DateTime<Utc> is a count of ticks, TicksPerSecond of them to the second.
\* chrono::serde::ts_seconds writes the whole seconds of it and reads a
\* number of seconds back as the instant at the start of that second.
Timestamp(t) == t \div TicksPerSecond
FromTimestamp(secs) == secs * TicksPerSecond

\* mutant: the proofs are left in the entry that is hashed
CanonEntryWithProof(entry) ==
       <<130>> \o CanonParameters(entry.parameters)
    \o <<131, 104>>
    \o [i \in 1..(2 * Len(entry.proof)) |->
           IF i % 2 = 1 THEN 140 + entry.proof[(i + 1) \div 2].verification_method
           ELSE entry.proof[i \div 2].proof_value]
    \o <<105>>
    \o <<132>> \o CanonDocument(entry.state)
    \o <<133>> \o JString(entry.version_id)
    \o <<134, Timestamp(entry.version_time)>>

\* jcs_canonicalize(&entry_without_proof): the whole DIDLogEntry with
\* proof = [], versionTime as integer seconds (ts_seconds)
CanonEntryWithoutProof(entry) ==
       <<130>> \o CanonParameters(entry.parameters)
    \o <<131, 104, 105>>
    \o <<132>> \o CanonDocument(entry.state)
    \o <<133>> \o JString(entry.version_id)
    \o <<134, Timestamp(entry.version_time)>>

\* DateTime::to_rfc3339: the seconds, then the fraction when there is one
Rfc3339(t) ==
    Decimal(Timestamp(t))
        \o (IF t % TicksPerSecond = 0 THEN <<>> ELSE <<108, t % TicksPerSecond>>)
        \o <<106>>

SCID_PLACEHOLDER == <<107>>

\* the hand-built object of generate_scid: no proof member, versionTime as an
\* RFC 3339 string
CanonScidInput(entry_copy) ==
       <<130>> \o CanonParameters(entry_copy.parameters)
    \o <<132>> \o CanonDocument(entry_copy.state)
    \o <<133>> \o JString(entry_copy.version_id)
    \o <<134>> \o JString(Rfc3339(entry_copy.version_time))

(* ----------------------- entry hash and SCID --------------------------- *)
calculate_entry_hash(entry) ==
    ToBase58(MultihashBytes(SHA2_256, Sha256(CanonEntryWithoutProof(entry))))

\* mutant: the entry's own scid stays in the hashed copy
generate_scid_keeps_scid(entry) ==
    LET entry_copy == [entry EXCEPT !.version_id = SCID_PLACEHOLDER]
    IN ToBase58(MultihashBytes(SHA2_256, Sha256(CanonScidInput(entry_copy))))

generate_scid(entry) ==
    LET entry_copy == [entry EXCEPT !.version_id = SCID_PLACEHOLDER,
                                    !.parameters.scid = Some(SCID_PLACEHOLDER)]
    IN ToBase58(MultihashBytes(SHA2_256, Sha256(CanonScidInput(entry_copy))))

\* utils::verify_scid
utils_verify_scid(scid, entry) == scid = generate_scid(entry)

(* ----------------------------- DidResolver ----------------------------- *)
\* A resolver value: the fields of struct DidResolver that the verifier reads
\* and writes (client and did_operations hold no verifier state).
DidResolver_new ==
    [active_parameters |-> DIDParameters(DefaultMethod, None, None, None, None,
                                         None, None, None, None),
     processed_documents |-> <<>>,
     current_version |-> 0,
     pre_rotation_active |-> FALSE,
     next_key_hashes |-> {}]

\* the set of the elements of a list (iter().cloned().collect() into a HashSet)
ToSet(list) == {list[i] : i \in 1..Len(list)}

\* mutant: ttl is assigned like method, whether the entry sets it or not
update_parameters_ttl_overwritten(self, new_params) ==
    LET carry(old, new) == IF new # None THEN new ELSE old
        ap == self.active_parameters
    IN [self EXCEPT
          !.active_parameters =
              DIDParameters(new_params.method,
                            carry(ap.scid, new_params.scid),
                            carry(ap.update_keys, new_params.update_keys),
                            carry(ap.prerotation, new_params.prerotation),
                            carry(ap.next_key_hashes, new_params.next_key_hashes),
                            carry(ap.portable, new_params.portable),
                            carry(ap.witness, new_params.witness),
                            carry(ap.deactivated, new_params.deactivated),
                            new_params.ttl),
          !.pre_rotation_active =
              IF new_params.prerotation # None THEN new_params.prerotation[1] ELSE @,
          !.next_key_hashes =
              IF new_params.next_key_hashes # None
              THEN ToSet(new_params.next_key_hashes[1]) ELSE @]

update_parameters(self, new_params) ==
    LET carry(old, new) == IF new # None THEN new ELSE old
        ap == self.active_parameters
    IN [self EXCEPT
          !.active_parameters =
              DIDParameters(new_params.method,
                            carry(ap.scid, new_params.scid),
                            carry(ap.update_keys, new_params.update_keys),
                            carry(ap.prerotation, new_params.prerotation),
                            carry(ap.next_key_hashes, new_params.next_key_hashes),
                            carry(ap.portable, new_params.portable),
                            carry(ap.witness, new_params.witness),
                            carry(ap.deactivated, new_params.deactivated),
                            carry(ap.ttl, new_params.ttl)),
          !.pre_rotation_active =
              IF new_params.prerotation # None THEN new_params.prerotation[1] ELSE @,
          !.next_key_hashes =
              IF new_params.next_key_hashes # None
              THEN ToSet(new_params.next_key_hashes[1]) ELSE @]

\* DidOperations::verify_proof: canonicalizes the entry and answers Ok(true)
DidOperations_verify_proof(entry) ==
    Len(CanonEntryWithoutProof(entry)) >= 0

verify_proof(self, entry) ==
    IF DidOperations_verify_proof(entry) THEN "Ok" ELSE "InvalidProof"

\* mutant: the hash is compared before the version number
verify_version_id_and_hash_hash_first(self, entry) ==
    LET parts == Split(entry.version_id, DASH)
    IN IF Len(parts) # 2 THEN "InvalidVersionId"
       ELSE IF ParseU64(parts[1]) = None THEN "InvalidVersionId"
       ELSE IF calculate_entry_hash(entry) # parts[2] THEN "InvalidEntryHash"
       ELSE IF ParseU64(parts[1])[1] # self.current_version + 1 THEN "InvalidVersionNumber"
       ELSE "Ok"

verify_version_id_and_hash(self, entry) ==
    LET parts == Split(entry.version_id, DASH)
    IN IF Len(parts) # 2 THEN "InvalidVersionId"
       ELSE IF ParseU64(parts[1]) = None THEN "InvalidVersionId"
       ELSE IF ParseU64(parts[1])[1] # self.current_version + 1 THEN "InvalidVersionNumber"
       ELSE IF calculate_entry_hash(entry) # parts[2] THEN "InvalidEntryHash"
       ELSE "Ok"

\* mutant: the test against the clock is made before the regression test
check_version_time_future_first(self, entry, utc_now) ==
    IF entry.version_time > utc_now THEN "FutureVersionTime"
    ELSE IF /\ self.processed_documents # <<>>
            /\ entry.version_time <= self.processed_documents[Len(self.processed_documents)][2]
    THEN "InvalidVersionTime"
    ELSE "Ok"

\* mutant: the regression test lets an equal versionTime through
check_version_time_lt(self, entry, utc_now) ==
    IF /\ self.processed_documents # <<>>
       /\ entry.version_time < self.processed_documents[Len(self.processed_documents)][2]
    THEN "InvalidVersionTime"
    ELSE IF entry.version_time > utc_now THEN "FutureVersionTime"
    ELSE "Ok"

check_version_time(self, entry, utc_now) ==
    IF /\ self.processed_documents # <<>>
       /\ entry.version_time <= self.processed_documents[Len(self.processed_documents)][2]
    THEN "InvalidVersionTime"
    ELSE IF entry.version_time > utc_now THEN "FutureVersionTime"
    ELSE "Ok"

\* mutant: the SCID is required but never compared
verify_scid_unchecked(self, entry) ==
    IF self.active_parameters.scid = None THEN "MissingSCID" ELSE "Ok"

verify_scid(self, entry) ==
    IF self.active_parameters.scid = None THEN "MissingSCID"
    ELSE IF ~utils_verify_scid(self.active_parameters.scid[1], entry) THEN "InvalidSCID"
    ELSE "Ok"

\* mutant: an entry may leave out its own next_key_hashes
handle_pre_rotation_no_next(self, entry) ==
    IF entry.parameters.prerotation = Some(TRUE)
    THEN IF entry.parameters.update_keys = None THEN "InvalidLogEntry"
         ELSE IF self.active_parameters.next_key_hashes = None THEN "InvalidLogEntry"
         ELSE LET current_update_keys == entry.parameters.update_keys[1]
                  previous_next_key_hashes == self.active_parameters.next_key_hashes[1]
              IN IF \E i \in 1..Len(current_update_keys) :
                        hash_key(current_update_keys[i]) \notin ToSet(previous_next_key_hashes)
                 THEN "InvalidPreRotationKey"
                 ELSE "Ok"
    ELSE "Ok"

handle_pre_rotation(self, entry) ==
    IF entry.parameters.prerotation = Some(TRUE)
    THEN IF entry.parameters.update_keys = None THEN "InvalidLogEntry"
         ELSE IF self.active_parameters.next_key_hashes = None THEN "InvalidLogEntry"
         ELSE LET current_update_keys == entry.parameters.update_keys[1]
                  previous_next_key_hashes == self.active_parameters.next_key_hashes[1]
              IN IF \E i \in 1..Len(current_update_keys) :
                        hash_key(current_update_keys[i]) \notin ToSet(previous_next_key_hashes)
                 THEN "InvalidPreRotationKey"
                 ELSE IF entry.parameters.next_key_hashes = None THEN "MissingNextKeyHashes"
                 ELSE "Ok"
    ELSE "Ok"

\* the first Err of a run of `?` steps, Ok when there is none
RECURSIVE FirstErr(_)
FirstErr(results) ==
    IF results = <<>> THEN "Ok"
    ELSE IF Head(results) # "Ok" THEN Head(results)
    ELSE FirstErr(Tail(results))

\* mutant: the entry is pushed but the version is not counted
commit_uncounted(self, entry) ==
    [self EXCEPT
       !.processed_documents =
           Append(@, <<entry.version_id, entry.version_time, entry.state>>)]

\* the push onto processed_documents and the increment of current_version
commit(self, entry) ==
    [self EXCEPT
       !.processed_documents =
           Append(@, <<entry.version_id, entry.version_time, entry.state>>),
       !.current_version = @ + 1]

\* mutant: nothing is accepted on top of an inherited deactivation
run_checks_deactivation_final(self, entry, utc_now) ==
    IF self.active_parameters.deactivated = Some(TRUE) /\ entry.parameters.deactivated = None
    THEN "InvalidLogEntry"
    ELSE FirstErr(<<verify_proof(self, entry),
                    verify_version_id_and_hash(self, entry),
                    check_version_time(self, entry, utc_now),
                    IF self.current_version = 0 THEN verify_scid(self, entry) ELSE "Ok",
                    handle_pre_rotation(self, entry)>>)

\* the checks of process_log_entry after update_parameters, in source order
run_checks(self, entry, utc_now) ==
    FirstErr(<<verify_proof(self, entry),
               verify_version_id_and_hash(self, entry),
               check_version_time(self, entry, utc_now),
               IF self.current_version = 0 THEN verify_scid(self, entry) ELSE "Ok",
               handle_pre_rotation(self, entry)>>)

\* process_log_entry: the resolver it leaves behind and the Result it returns
process_log_entry(self, entry, utc_now) ==
    LET updated == update_parameters(self, entry.parameters)
        res == run_checks(updated, entry, utc_now)
    IN IF res = "Ok"
       THEN [self |-> commit(updated, entry), result |-> "Ok"]
       ELSE [self |-> updated, result |-> res]

\* mutant: the search by time runs from the front of the history
get_did_document_earliest(self, version_id, version_time) ==
    LET docs == self.processed_documents
        found(S, i) == IF S = {} THEN [doc |-> None, err |-> "VersionNotFound"]
                       ELSE [doc |-> Some(docs[i][3]), err |-> "Ok"]
    IN IF version_id # None
       THEN LET S == {i \in 1..Len(docs) : docs[i][1] = version_id[1]}
            IN found(S, CHOOSE i \in S : \A j \in S : i <= j)
       ELSE IF version_time # None
       THEN LET S == {i \in 1..Len(docs) : docs[i][2] <= version_time[1]}
            IN found(S, CHOOSE i \in S : \A j \in S : i <= j)
       ELSE IF docs = <<>> THEN [doc |-> None, err |-> "NoDocumentFound"]
       ELSE [doc |-> Some(docs[Len(docs)][3]), err |-> "Ok"]

\* mutant: a given version_time is looked at before the version_id
get_did_document_time_first(self, version_id, version_time) ==
    LET docs == self.processed_documents
        found(S, i) == IF S = {} THEN [doc |-> None, err |-> "VersionNotFound"]
                       ELSE [doc |-> Some(docs[i][3]), err |-> "Ok"]
    IN IF version_time # None
       THEN LET S == {i \in 1..Len(docs) : docs[i][2] <= version_time[1]}
            IN found(S, CHOOSE i \in S : \A j \in S : i >= j)
       ELSE IF version_id # None
       THEN LET S == {i \in 1..Len(docs) : docs[i][1] = version_id[1]}
            IN found(S, CHOOSE i \in S : \A j \in S : i <= j)
       ELSE IF docs = <<>> THEN [doc |-> None, err |-> "NoDocumentFound"]
       ELSE [doc |-> Some(docs[Len(docs)][3]), err |-> "Ok"]

\* mutant: without arguments the first document of the history is returned
get_did_document_first(self, version_id, version_time) ==
    LET docs == self.processed_documents
        found(S, i) == IF S = {} THEN [doc |-> None, err |-> "VersionNotFound"]
                       ELSE [doc |-> Some(docs[i][3]), err |-> "Ok"]
    IN IF version_id # None
       THEN LET S == {i \in 1..Len(docs) : docs[i][1] = version_id[1]}
            IN found(S, CHOOSE i \in S : \A j \in S : i <= j)
       ELSE IF version_time # None
       THEN LET S == {i \in 1..Len(docs) : docs[i][2] <= version_time[1]}
            IN found(S, CHOOSE i \in S : \A j \in S : i >= j)
       ELSE IF docs = <<>> THEN [doc |-> None, err |-> "NoDocumentFound"]
       ELSE [doc |-> Some(docs[1][3]), err |-> "Ok"]

\* get_did_document: Ok(doc) as [doc |-> Some(doc), err |-> "Ok"]
get_did_document(self, version_id, version_time) ==
    LET docs == self.processed_documents
        found(S, i) == IF S = {} THEN [doc |-> None, err |-> "VersionNotFound"]
                       ELSE [doc |-> Some(docs[i][3]), err |-> "Ok"]
    IN IF version_id # None
       THEN LET S == {i \in 1..Len(docs) : docs[i][1] = version_id[1]}
            IN found(S, CHOOSE i \in S : \A j \in S : i <= j)
       ELSE IF version_time # None
       THEN LET S == {i \in 1..Len(docs) : docs[i][2] <= version_time[1]}
            IN found(S, CHOOSE i \in S : \A j \in S : i >= j)
       ELSE IF docs = <<>> THEN [doc |-> None, err |-> "NoDocumentFound"]
       ELSE [doc |-> Some(docs[Len(docs)][3]), err |-> "Ok"]

(* --------------------------- the served log ---------------------------- *)
\* The entries a log may hold.  Sealed entries carry the versionId hash
\* and SCID their own content calls for; the integrity slice carries every
\* SCID and versionId, right or wrong.
HashStrings == {ToBase58(MultihashBytes(SHA2_256, d)) : d \in 0..(HashSpace - 1)}

VersionId(n, h) == Decimal(n) \o <<DASH>> \o h

KeyLists == {<<k>> : k \in Keys}
KeyHashLists == {<<hash_key(k)>> : k \in Keys}

Params(scid, update_keys, prerotation, next_key_hashes) ==
    DIDParameters(DefaultMethod, scid, update_keys, prerotation, next_key_hashes,
                  None, None, None, None)

Options(S) == {None} \cup {Some(x) : x \in S}

ProofLists == {<<>>} \cup {<<Proof(k, v)>> : k \in Keys, v \in {0, 1}}
DefaultProof == <<Proof(1, 1)>>

\* the entries with the given content that a controller can publish as
\* version n at second t: scid is generate_scid of the entry for the first
\* version and absent later, and the versionId names the hash of the entry
\* that bears it; a parsed log line holds a whole-second versionTime
Sealed(n, t, uk, pre, nkh, d, proof) ==
    LET time == FromTimestamp(t)
        draft == DIDLogEntry(SCID_PLACEHOLDER, time, Params(None, uk, pre, nkh),
                             DIDDocument(d), proof)
        scid == IF n = 1 THEN Some(generate_scid(draft)) ELSE None
        body(h) == DIDLogEntry(VersionId(n, h), time, Params(scid, uk, pre, nkh),
                               DIDDocument(d), proof)
    IN {body(h) : h \in {x \in HashStrings : calculate_entry_hash(body(x)) = x}}

\* every pre-rotation setting, one entry a second
RotationEntries ==
    UNION {Sealed(n, n, uk, pre, nkh, 1, DefaultProof) :
             n \in 1..MaxLog, uk \in Options(KeyLists), pre \in Options(BOOLEAN),
             nkh \in Options(KeyHashLists)}

\* every version number (0, repeats and skips included), time and document
VersionEntries ==
    UNION {Sealed(n, t, Some(<<1>>), None, None, d, DefaultProof) :
             n \in 0..(MaxLog + 1), t \in 1..(MaxClock + 1), d \in Docs}

\* every proof list
ProofEntries ==
    UNION {Sealed(n, n, uk, None, None, 1, proof) :
             n \in 1..2, uk \in {None, Some(<<1>>)}, proof \in ProofLists}

\* every SCID and versionId, well-formed or not
VersionIds(n) ==
    {VersionId(n, h) : h \in HashStrings}
        \cup {Decimal(n), <<DASH + 1>> \o VersionId(n, <<>>),
              VersionId(n, <<DASH + 1, DASH, DASH + 1>>)}

IntegrityEntries ==
    UNION {{DIDLogEntry(vid, FromTimestamp(n), Params(scid, Some(<<1>>), None, None),
                        DIDDocument(1), DefaultProof) :
              vid \in VersionIds(n), scid \in Options(HashStrings)} : n \in 1..2}

\* Sealed for any parameters: p comes without scid, which is filled in for
\* the first version
SealedWith(n, t, p, d, proof) ==
    LET time == FromTimestamp(t)
        draft == DIDLogEntry(SCID_PLACEHOLDER, time, p, DIDDocument(d), proof)
        scid == IF n = 1 THEN Some(generate_scid(draft)) ELSE None
        body(h) == DIDLogEntry(VersionId(n, h), time, [p EXCEPT !.scid = scid],
                               DIDDocument(d), proof)
    IN {body(h) : h \in {x \in HashStrings : calculate_entry_hash(body(x)) = x}}

\* the method strings "did:tdw:0.4" and "did:tdw:0.3"
Methods == {DefaultMethod, <<0, 3>>}

\* key parameters: one key, none, or one key committed to itself
KeyChoices ==
    {[update_keys |-> Some(<<1>>), prerotation |-> None, next_key_hashes |-> None],
     [update_keys |-> None, prerotation |-> None, next_key_hashes |-> None],
     [update_keys |-> Some(<<1>>), prerotation |-> Some(TRUE),
      next_key_hashes |-> Some(<<hash_key(1)>>)]}

\* portable, witness (told apart by its threshold), deactivated and ttl: an
\* entry sets at most one of them
FlagChoices ==
    LET unset == [portable |-> None, witness |-> None, deactivated |-> None, ttl |-> None]
    IN {unset, [unset EXCEPT !.portable = Some(TRUE)], [unset EXCEPT !.witness = Some(2)],
        [unset EXCEPT !.deactivated = Some(TRUE)], [unset EXCEPT !.deactivated = Some(FALSE)],
        [unset EXCEPT !.ttl = Some(60)]}

\* every parameter setting, one entry a second, and the successors that are
\* dated like the entry they follow
ParameterEntries ==
    UNION {SealedWith(n, n,
                      DIDParameters(method, None, k.update_keys, k.prerotation,
                                    k.next_key_hashes, f.portable, f.witness,
                                    f.deactivated, f.ttl),
                      1, DefaultProof) :
             n \in 1..MaxLog, method \in Methods, k \in KeyChoices, f \in FlagChoices}
        \cup UNION {SealedWith(n, n - 1, Params(None, None, None, None), 1, DefaultProof) :
                      n \in 2..MaxLog}

ParameterLog == {e : e \in ParameterEntries}

LogEntries == {e : e \in VersionEntries \cup ProofEntries \cup IntegrityEntries}

RotationLog == {e : e \in RotationEntries}

\* the version_id / version_time arguments of resolve_did
Requests ==
    {rq : rq \in
        {[version_id |-> None, version_time |-> vt] :
            vt \in Options(0..FromTimestamp(MaxClock + 1))}
        \cup {[version_id |-> Some(VersionId(n, h)), version_time |-> vt] :
                n \in 1..MaxLog, h \in HashStrings, vt \in {None, Some(0)}}}

Latest == {[version_id |-> None, version_time |-> None]}

(* --------------------------- resolve_did ------------------------------- *)
VARIABLES
    pc,                   \* where resolve_did stands
    now,                  \* Utc::now(), read to the second
    active_parameters,    \* DidResolver fields
    processed_documents,
    current_version,
    pre_rotation_active,
    next_key_hashes,
    entry,                \* the log entry last handed to process_log_entry
    result,               \* what process_log_entry returned for it
    accepted,             \* history: the entries process_log_entry accepted
    request,              \* the version_id / version_time asked for
    outcome,              \* what resolve_did returns
    did_log,              \* the body fetch_did_log read and the entries still to replay
    args,                 \* the arguments of a direct call of a library function
    ret                   \* what that call returned

verifier == <<active_parameters, processed_documents, current_version,
              pre_rotation_active, next_key_hashes>>

vars == <<pc, now, active_parameters, processed_documents, current_version,
          pre_rotation_active, next_key_hashes, entry, result, accepted,
          request, outcome, did_log, args, ret>>

call == <<args, ret>>

Self ==
    [active_parameters |-> active_parameters,
     processed_documents |-> processed_documents,
     current_version |-> current_version,
     pre_rotation_active |-> pre_rotation_active,
     next_key_hashes |-> next_key_hashes]

SetSelf(self) ==
    /\ active_parameters' = self.active_parameters
    /\ processed_documents' = self.processed_documents
    /\ current_version' = self.current_version
    /\ pre_rotation_active' = self.pre_rotation_active
    /\ next_key_hashes' = self.next_key_hashes

Pending == [kind |-> "Pending", err |-> "Ok", doc |-> None]
Returned(r) == [kind |-> IF r.err = "Ok" THEN "Ok" ELSE "Err", err |-> r.err, doc |-> r.doc]
Panicked == [kind |-> "Panic", err |-> "unimplemented", doc |-> None]

Init ==
    /\ pc = "create_store"
    /\ now = FromTimestamp(1)
    /\ active_parameters = DidResolver_new.active_parameters
    /\ processed_documents = DidResolver_new.processed_documents
    /\ current_version = DidResolver_new.current_version
    /\ pre_rotation_active = DidResolver_new.pre_rotation_active
    /\ next_key_hashes = DidResolver_new.next_key_hashes
    /\ entry = None
    /\ result = "None"
    /\ accepted = <<>>
    /\ request = None
    /\ outcome = Pending
    /\ did_log = None
    /\ args = None
    /\ ret = None

\* create_store: the key store of the embedding process.  The stub in the
\* source panics; a store supplied in its place lets resolve_did go on.
CreateStore ==
    /\ pc = "create_store"
    /\ \E supplied \in BOOLEAN :
          IF supplied
          THEN pc' = "fetch_did_log" /\ outcome' = outcome
          ELSE pc' = "done" /\ outcome' = Panicked
    /\ UNCHANGED <<call, did_log, now, verifier, entry, result, accepted, request>>

\* fetch_did_log: the GET fails (`?` returns RequestError) or yields the log
FetchDidLog ==
    /\ pc = "fetch_did_log"
    /\ \E fetched \in BOOLEAN :
          IF fetched
          THEN pc' = "replay" /\ outcome' = outcome
          ELSE pc' = "done"
               /\ outcome' = Returned([doc |-> None, err |-> "RequestError"])
    /\ UNCHANGED <<call, did_log, now, verifier, entry, result, accepted, request>>

\* mutant: the loop drops the Err and goes on to the next entry
after_entry_continue(res) == [pc |-> "replay", outcome |-> Pending]

\* `resolver.process_log_entry(&entry)?` inside the for loop: where the loop
\* goes and what resolve_did returns, given the Result
after_entry(res) ==
    IF res = "Ok"
    THEN [pc |-> "replay", outcome |-> Pending]
    ELSE [pc |-> "done", outcome |-> Returned([doc |-> None, err |-> res])]

\* one iteration of `for entry in did_log.entries`, over the entries a log
\* may hold
ReplayFrom(entries) ==
    /\ pc = "replay"
    /\ current_version < MaxLog
    /\ \E e \in entries :
       \E out \in {process_log_entry(Self, e, now)} :
          LET next == after_entry(out.result)
          IN /\ SetSelf(out.self)
             /\ entry' = Some(e)
             /\ result' = out.result
             /\ accepted' = IF out.result = "Ok" THEN Append(accepted, e) ELSE accepted
             /\ pc' = next.pc
             /\ outcome' = next.outcome
    /\ UNCHANGED <<call, did_log, now, request>>

\* the loop is over: resolver.get_did_document(version_id, version_time)
SelectFrom(requests) ==
    /\ pc = "replay"
    /\ \E rq \in requests :
       \E got \in {get_did_document(Self, rq.version_id, rq.version_time)} :
          /\ request' = Some(rq)
          /\ outcome' = Returned(got)
    /\ pc' = "done"
    /\ UNCHANGED <<call, did_log, now, verifier, entry, result, accepted>>

ReplayEntry == ReplayFrom(LogEntries)

Select == SelectFrom(Requests)

ReplayRotation == ReplayFrom(RotationLog)

SelectLatest == SelectFrom(Latest)

ReplayParameters == ReplayFrom(ParameterLog)

\* the wall clock advances while the log is replayed
Tick ==
    /\ pc = "replay"
    /\ now < FromTimestamp(MaxClock)
    /\ now' = now + TicksPerSecond
    /\ UNCHANGED <<call, did_log, pc, verifier, entry, result, accepted, request, outcome>>

Next == CreateStore \/ FetchDidLog \/ ReplayEntry \/ Select \/ Tick

Spec == Init /\ [][Next]_vars

\* a line of the body: the text of a DIDLogEntry, the empty line, or text
\* that is no DIDLogEntry
EntryLine(e) == [text |-> "entry", entry |-> Some(e)]
MalformedLines == {[text |-> "empty", entry |-> None], [text |-> "malformed", entry |-> None]}

\* serde_json::from_str::<DIDLogEntry>(line).ok()
from_str_ok(line) == IF line.text = "entry" THEN line.entry ELSE None

\* mutant: the entries up to the first line that does not parse
RECURSIVE entries_until_malformed(_)
entries_until_malformed(lines) ==
    IF lines = <<>> THEN <<>>
    ELSE LET parsed == from_str_ok(Head(lines))
         IN IF parsed = None THEN <<>>
            ELSE parsed \o entries_until_malformed(Tail(lines))

\* log_content.lines().filter_map(|line| serde_json::from_str(line).ok()).collect()
RECURSIVE filter_map_lines(_)
filter_map_lines(lines) ==
    IF lines = <<>> THEN <<>>
    ELSE from_str_ok(Head(lines)) \o filter_map_lines(Tail(lines))

\* the lines a body may hold: a chain of entries, one a second, and the
\* malformed lines
LogLines ==
    {EntryLine(e) : e \in UNION {Sealed(n, n, Some(<<1>>), None, None, 1, DefaultProof) :
                                   n \in 1..MaxLog}}
        \cup MalformedLines

Bodies == {b : b \in UNION {[1..n -> LogLines] : n \in 0..MaxLines}}

\* fetch_did_log, body included: the GET fails or the lines of the body are
\* parsed into DIDLog.entries
FetchLines ==
    /\ pc = "fetch_did_log"
    /\ \/ /\ pc' = "done"
          /\ outcome' = Returned([doc |-> None, err |-> "RequestError"])
          /\ did_log' = did_log
       \/ \E log_content \in Bodies :
             /\ did_log' = Some([lines |-> log_content,
                                 entries |-> filter_map_lines(log_content)])
             /\ pc' = "replay"
             /\ outcome' = outcome
    /\ UNCHANGED <<call, now, verifier, entry, result, accepted, request>>

\* one iteration of `for entry in did_log.entries` over the fetched entries
ReplayLine ==
    /\ pc = "replay"
    /\ did_log # None
    /\ did_log[1].entries # <<>>
    /\ \E out \in {process_log_entry(Self, Head(did_log[1].entries), now)} :
          LET next == after_entry(out.result)
          IN /\ SetSelf(out.self)
             /\ entry' = Some(Head(did_log[1].entries))
             /\ result' = out.result
             /\ accepted' = IF out.result = "Ok"
                            THEN Append(accepted, Head(did_log[1].entries)) ELSE accepted
             /\ pc' = next.pc
             /\ outcome' = next.outcome
    /\ did_log' = Some([did_log[1] EXCEPT !.entries = Tail(@)])
    /\ UNCHANGED <<call, now, request>>

\* the fetched entries are used up: resolver.get_did_document(None, None)
SelectAfterLines ==
    /\ did_log # None
    /\ did_log[1].entries = <<>>
    /\ SelectLatest

\* resolve_did from the body of the log on
NextLines == CreateStore \/ FetchLines \/ ReplayLine \/ SelectAfterLines \/ Tick

SpecLines == Init /\ [][NextLines]_vars

\* Utc::now() is the wall clock of the host, which may be set while the log
\* is replayed: two readings need not be in order
SetClock ==
    /\ pc = "replay"
    /\ \E secs \in 1..MaxClock :
          /\ FromTimestamp(secs) # now
          /\ now' = FromTimestamp(secs)
    /\ UNCHANGED <<call, did_log, pc, verifier, entry, result, accepted, request, outcome>>

\* the resolve of Spec under a wall clock that can be set
NextWallClock == CreateStore \/ FetchDidLog \/ ReplayEntry \/ Select \/ SetClock

SpecWallClock == Init /\ [][NextWallClock]_vars

\* the same resolve over logs that exercise pre-rotation
NextRotation == CreateStore \/ FetchDidLog \/ ReplayRotation \/ SelectLatest \/ Tick

SpecRotation == Init /\ [][NextRotation]_vars

\* the same resolve over logs that exercise every parameter
NextParameters == CreateStore \/ FetchDidLog \/ ReplayParameters \/ SelectLatest \/ Tick

SpecParameters == Init /\ [][NextParameters]_vars

(* ------------------------------- TdwDid -------------------------------- *)
\* further characters: letters a..z are 11..36, punctuation has its ASCII code
DOT == 46
SLASH == 47
COLON == 58
QUESTION == 63

\* "did", "tdw", "web", "https", ".well-known", "did.jsonl"
DID == <<14, 19, 14>>
TDW == <<30, 14, 33>>
WEB == <<33, 15, 12>>
HTTPS == <<18, 30, 30, 26, 29>>
WELL_KNOWN == <<DOT, 33, 15, 22, 22, DASH, 21, 24, 25, 33, 24>>
DID_JSONL == <<14, 19, 14, DOT, 20, 29, 25, 24, 22>>

U16_MAX == 65535
HTTPS_DEFAULT_PORT == 443

\* format!("{}", port) of a u16
RECURSIVE DisplayU16(_)
DisplayU16(n) == IF n < 10 THEN <<n>> ELSE DisplayU16(n \div 10) \o <<n % 10>>

\* str::parse::<u16>(): None unless a non-empty run of digits within u16
ParseU16(s) ==
    IF s # <<>> /\ (\A i \in 1..Len(s) : s[i] \in 0..9)
       /\ DigitsValue(s, 0) <= U16_MAX
    THEN Some(DigitsValue(s, 0))
    ELSE None

\* [&str]::join(sep)
RECURSIVE Join(_, _)
Join(parts, sep) ==
    IF parts = <<>> THEN <<>>
    ELSE IF Len(parts) = 1 THEN parts[1]
    ELSE parts[1] \o <<sep>> \o Join(Tail(parts), sep)

Contains(s, c) == \E i \in 1..Len(s) : s[i] = c

\* the first index of s that holds one of the characters, Len(s) + 1 if none
FirstOf(s, chars) ==
    IF \E i \in 1..Len(s) : s[i] \in chars
    THEN CHOOSE i \in 1..Len(s) : s[i] \in chars /\ \A j \in 1..(i - 1) : s[j] \notin chars
    ELSE Len(s) + 1

\* str::splitn(2, sep): one piece, or the piece before the first separator
\* and everything after it
SplitN2(s, sep) ==
    LET i == FirstOf(s, {sep})
    IN IF i > Len(s) THEN <<s>>
       ELSE <<SubSeq(s, 1, i - 1), SubSeq(s, i + 1, Len(s))>>

\* TdwDid::new
TdwDid(scid, domain, port, path) ==
    [scid |-> scid, domain |-> domain, port |-> port, path |-> path]

\* mutant: the port is left out of the identifier
to_string_no_port(self) ==
    DID \o <<COLON>> \o TDW \o <<COLON>> \o self.scid \o <<COLON>> \o self.domain
        \o (IF self.path # None THEN <<SLASH>> \o self.path[1] ELSE <<>>)

\* TdwDid::to_string
to_string(self) ==
    DID \o <<COLON>> \o TDW \o <<COLON>> \o self.scid \o <<COLON>> \o self.domain
        \o (IF self.port # None THEN <<COLON>> \o DisplayU16(self.port[1]) ELSE <<>>)
        \o (IF self.path # None THEN <<SLASH>> \o self.path[1] ELSE <<>>)

InvalidDIDFormat == [err |-> "InvalidDIDFormat", value |-> None]

\* TdwDid::parse_and_validate_tdw_did
parse_and_validate_tdw_did(did) ==
    LET parts == Split(did, COLON)
    IN IF Len(parts) < 4 \/ parts[1] # DID \/ parts[2] # TDW THEN InvalidDIDFormat
       ELSE LET scid == parts[3]
                domain_and_rest == Join(SubSeq(parts, 4, Len(parts)), COLON)
                domain_parts == SplitN2(domain_and_rest, SLASH)
                domain_and_port == domain_parts[1]
                path == IF Len(domain_parts) = 2 THEN Some(domain_parts[2]) ELSE None
            IN IF Contains(domain_and_port, COLON)
               THEN LET dp == Split(domain_and_port, COLON)
                    IN IF ParseU16(dp[2]) = None THEN InvalidDIDFormat
                       ELSE [err |-> "Ok",
                             value |-> Some(TdwDid(scid, dp[1], ParseU16(dp[2]), path))]
               ELSE [err |-> "Ok",
                     value |-> Some(TdwDid(scid, domain_and_port, None, path))]

\* the string to_url hands to Url::parse
UrlString(self) ==
    HTTPS \o <<COLON, SLASH, SLASH>> \o self.domain
        \o (IF self.port # None THEN <<COLON>> \o DisplayU16(self.port[1]) ELSE <<>>)
        \o (IF self.path # None THEN <<SLASH>> \o self.path[1]
            ELSE <<SLASH>> \o WELL_KNOWN)
        \o <<SLASH>> \o DID_JSONL

\* Url::parse of an "https://" string whose host is a plain name: the
\* authority ends at the first '/' or '?', a port equal to the scheme's
\* default is dropped, and the path ends where a '?' starts the query
UrlParse(s) ==
    LET rest == SubSeq(s, Len(HTTPS) + 4, Len(s))
        a == FirstOf(rest, {SLASH, QUESTION})
        authority == SubSeq(rest, 1, a - 1)
        hp == Split(authority, COLON)
        port == IF Len(hp) = 2 THEN ParseU16(hp[2]) ELSE None
        tail == SubSeq(rest, a, Len(rest))
        q == FirstOf(tail, {QUESTION})
    IN [scheme |-> SubSeq(s, 1, Len(HTTPS)),
        host |-> hp[1],
        port |-> IF port = Some(HTTPS_DEFAULT_PORT) THEN None ELSE port,
        path |-> IF q = 1 THEN <<SLASH>> ELSE SubSeq(tail, 1, q - 1),
        query |-> IF q > Len(tail) THEN None ELSE Some(SubSeq(tail, q + 1, Len(tail)))]

\* TdwDid::to_url
to_url(self) == UrlParse(UrlString(self))

(* ------------------ resolve_did from the identifier on ----------------- *)
\* the did argument of resolve_did: an identifier for each SCID there is, on
\* one domain, and a string that is no did:tdw identifier
ResolveDids ==
    {to_string(TdwDid(scid, <<15, DOT, 13>>, None, None)) : scid \in HashStrings}
        \cup {Join(<<DID, WEB, <<15, DOT, 13>>>>, COLON)}

InitBinding ==
    /\ pc = "parse"
    /\ now = FromTimestamp(1)
    /\ active_parameters = DidResolver_new.active_parameters
    /\ processed_documents = DidResolver_new.processed_documents
    /\ current_version = DidResolver_new.current_version
    /\ pre_rotation_active = DidResolver_new.pre_rotation_active
    /\ next_key_hashes = DidResolver_new.next_key_hashes
    /\ entry = None
    /\ result = "None"
    /\ accepted = <<>>
    /\ request = None
    /\ outcome = Pending
    /\ did_log = None
    /\ args \in {[did |-> None, str |-> Some(did)] : did \in ResolveDids}
    /\ ret = None

\* TdwDid::parse_and_validate_tdw_did(did)? and tdw_did.to_url()?: the parsed
\* identifier yields the URL of the log (to_url has no Err for the domains
\* here) and is used for nothing else
ParseDid ==
    /\ pc = "parse"
    /\ \E tdw_did \in {parse_and_validate_tdw_did(args.str[1])} :
          IF tdw_did.err # "Ok"
          THEN /\ pc' = "done"
               /\ outcome' = Returned([doc |-> None, err |-> tdw_did.err])
          ELSE /\ pc' = "create_store"
               /\ outcome' = outcome
    /\ UNCHANGED <<call, did_log, now, verifier, entry, result, accepted, request>>

\* the log found at the URL
ReplayBinding == ReplayFrom({e : e \in VersionEntries})

NextBinding ==
    ParseDid \/ CreateStore \/ FetchDidLog \/ ReplayBinding \/ SelectLatest \/ Tick

SpecBinding == InitBinding /\ [][NextBinding]_vars

(* ------------------- direct calls of the hash functions ---------------- *)
\* the entries a caller may hand to calculate_entry_hash, generate_scid and
\* verify_scid: any versionId, instant, parameters, document and proofs
DirectEntries ==
    {e : e \in
        {DIDLogEntry(vid, t, Params(scid, uk, None, None), DIDDocument(d), proof) :
            vid \in {SCID_PLACEHOLDER, VersionId(1, <<DASH + 1>>)},
            t \in 1..(TicksPerSecond + 1),
            scid \in {None, Some(<<DASH + 1>>)},
            uk \in {None, Some(<<1>>)},
            d \in Docs,
            proof \in {<<>>, DefaultProof}}}

InitCalls ==
    /\ pc = "call"
    /\ now = FromTimestamp(1)
    /\ active_parameters = DidResolver_new.active_parameters
    /\ processed_documents = DidResolver_new.processed_documents
    /\ current_version = DidResolver_new.current_version
    /\ pre_rotation_active = DidResolver_new.pre_rotation_active
    /\ next_key_hashes = DidResolver_new.next_key_hashes
    /\ entry = None
    /\ result = "None"
    /\ accepted = <<>>
    /\ request = None
    /\ outcome = Pending
    /\ did_log = None
    /\ ret = None

InitUtils == InitCalls /\ args \in DirectEntries \X DirectEntries

Return(value) ==
    /\ pc = "call"
    /\ pc' = "done"
    /\ ret' = value
    /\ UNCHANGED <<args, did_log, now, verifier, entry, result, accepted, request, outcome>>

\* calculate_entry_hash of either entry
CallCalculateEntryHash ==
    Return(<<"calculate_entry_hash",
             calculate_entry_hash(args[1]), calculate_entry_hash(args[2])>>)

\* generate_scid of either entry
CallGenerateScid ==
    Return(<<"generate_scid", generate_scid(args[1]), generate_scid(args[2])>>)

\* e.parameters.scid := generate_scid(e), then verify_scid(e.parameters.scid, e)
CallVerifyScid ==
    LET e == [args[1] EXCEPT !.parameters.scid = Some(generate_scid(args[1]))]
    IN Return(<<"verify_scid", utils_verify_scid(e.parameters.scid[1], e)>>)

NextUtils == CallCalculateEntryHash \/ CallGenerateScid \/ CallVerifyScid

SpecUtils == InitUtils /\ [][NextUtils]_vars

(* ---------------------- direct calls of TdwDid ------------------------- *)
\* the strings over an alphabet, up to a length
Strings(chars, n) == UNION {[1..k -> chars] : k \in 0..n}

\* the identifiers a caller may build with TdwDid::new
TdwDids ==
    {d : d \in
        {TdwDid(scid, domain, port, path) :
            scid \in {<<11>>, <<12, 13>>},
            domain \in {<<15>>, <<15, DOT, 13>>},
            port \in Options({0, HTTPS_DEFAULT_PORT, 8080, U16_MAX}),
            path \in Options(Strings({11, SLASH, QUESTION, COLON}, MaxPathLen))}}

\* what may stand where a port is expected
PortStrings == {<<>>, <<8, 0>>, DisplayU16(U16_MAX), DisplayU16(U16_MAX + 1), <<11>>}

\* the strings a caller may hand to parse_and_validate_tdw_did: those
\* to_string writes, and others with any method, any run of ':'-segments
\* after the domain, or too few segments
DidStrings ==
    {str : str \in
        {to_string(d) : d \in TdwDids}
        \cup {Join(<<m1, m2, <<11>>, <<15, DOT, 13>>>> \o tail, COLON) \o suffix :
                m1 \in {DID, WEB}, m2 \in {TDW, WEB},
                tail \in {<<>>} \cup {<<x>> : x \in PortStrings}
                            \cup {<<x, y>> : x \in PortStrings, y \in PortStrings},
                suffix \in {<<>>, <<SLASH, 11>>}}
        \cup {Join(<<DID, m2, <<15, DOT, 13>>>>, COLON) : m2 \in {TDW, WEB}}}

InitDid ==
    /\ InitCalls
    /\ args \in {[did |-> Some(d), str |-> None] : d \in TdwDids}
                \cup {[did |-> None, str |-> Some(str)] : str \in DidStrings}

\* parse_and_validate_tdw_did(&d.to_string())
CallToStringThenParse ==
    /\ args.did # None
    /\ Return(<<"to_string", to_string(args.did[1]),
                parse_and_validate_tdw_did(to_string(args.did[1]))>>)

\* d.to_url()
CallToUrl ==
    /\ args.did # None
    /\ Return(<<"to_url", to_url(args.did[1])>>)

\* parse_and_validate_tdw_did(did)
CallParse ==
    /\ args.str # None
    /\ Return(<<"parse_and_validate_tdw_did", parse_and_validate_tdw_did(args.str[1])>>)

NextDid == CallToStringThenParse \/ CallToUrl \/ CallParse

SpecDid == InitDid /\ [][NextDid]_vars

(* ------------------------------ create_did ----------------------------- *)
\* DidOperations::create_did, given the keys LocalKey::generate yields and the
\* readings of Utc::now() for the preliminary and the final entry
create_did(domain, enable_pre_rotation, main_key, next_key, t_preliminary, t_final) ==
    LET initial_doc == DIDDocument_new(Join(<<DID, TDW, SCID_PLACEHOLDER, domain>>, COLON))
        params == DIDParameters(DefaultMethod, None, Some(<<main_key>>),
                                Some(enable_pre_rotation),
                                IF enable_pre_rotation THEN Some(<<hash_key(next_key)>>)
                                ELSE None,
                                None, None, None, None)
        preliminary_entry == DIDLogEntry(SCID_PLACEHOLDER, t_preliminary, params,
                                         initial_doc, <<Proof(main_key, 1)>>)
        scid == generate_scid(preliminary_entry)
        did == TdwDid(scid, domain, None, None)
        document == DIDDocument_new(to_string(did))
        entry_hash == calculate_entry_hash(preliminary_entry)
        version_id == Decimal(1) \o <<DASH>> \o entry_hash
    IN [did |-> did,
        log_entry |-> DIDLogEntry(version_id, t_final, [params EXCEPT !.scid = Some(scid)],
                                  document, <<Proof(main_key, 1)>>)]

\* the domains a DID is created for
Domains == {<<15>>, <<15, DOT, 13>>, <<16, DOT, 13>>}

InitCreate ==
    /\ InitCalls
    /\ args \in [domain : Domains, enable_pre_rotation : BOOLEAN]

\* create_did(domain, enable_pre_rotation), then process_log_entry of the
\* returned entry on DidResolver::new, the clock being read once more
CallCreateDid ==
    \E main_key \in Keys, next_key \in Keys :
    \E t_preliminary \in now..(now + TicksPerSecond) :
    \E t_final \in t_preliminary..(now + TicksPerSecond) :
    \E created \in {create_did(args.domain, args.enable_pre_rotation, main_key, next_key,
                                t_preliminary, t_final)} :
       Return([did |-> created.did,
               log_entry |-> created.log_entry,
               verified |-> process_log_entry(DidResolver_new, created.log_entry,
                                              now + TicksPerSecond).result])

NextCreate == CallCreateDid

SpecCreate == InitCreate /\ [][NextCreate]_vars

(* ------------------------------ properties ----------------------------- *)
Failed == result \notin {"None", "Ok"}

\* the entry in `entry` is the first one of the log
FirstEntry == entry # None /\ Len(accepted) = (IF result = "Ok" THEN 1 ELSE 0)

\* the entries accepted before the one in `entry`
Earlier == IF result = "Ok" THEN SubSeq(accepted, 1, Len(accepted) - 1) ELSE accepted

\* the resolver as of the i-th accepted entry: carry-forward of the first i
RECURSIVE AsOf(_)
AsOf(i) ==
    IF i = 0 THEN DidResolver_new
    ELSE update_parameters(AsOf(i - 1), accepted[i].parameters)

\* some proof of e names one of the authorized keys and its signature verifies
HasValidProof(e, authorized_keys) ==
    /\ authorized_keys # None
    /\ \E i \in 1..Len(e.proof) :
          /\ e.proof[i].verification_method \in ToSet(authorized_keys[1])
          /\ e.proof[i].proof_value = 1

\* e is a correctly formed genesis entry: versionId "1-<entry hash>", its own
\* SCID, a valid self-signed proof
WellFormedGenesis(e) ==
    /\ e.version_id = VersionId(1, calculate_entry_hash(e))
    /\ e.parameters.scid = Some(generate_scid(e))
    /\ HasValidProof(e, e.parameters.update_keys)

\* C1: an ingest that returns an error leaves the whole verifier state
\* (active_parameters, pre_rotation_active, next_key_hashes, history and
\* current_version) exactly as it was before the call.
C1_IngestAtomic ==
    [][(pc = "replay" /\ result' \notin {"None", "Ok"}) => UNCHANGED verifier]_vars

\* C2: for consecutive accepted entries p and e, if prerotation is true as of
\* p then every update key of e hashes to a member of the next_key_hashes
\* published by p, whether or not e sets prerotation itself.
C2_PreRotationGate ==
    \A i \in 1..(Len(accepted) - 1) :
        LET prev == AsOf(i)
            e == accepted[i + 1]
        IN (prev.pre_rotation_active /\ e.parameters.update_keys # None)
           => \A k \in ToSet(e.parameters.update_keys[1]) :
                 hash_key(k) \in prev.next_key_hashes

\* C3: once an entry with prerotation=true has been accepted, a later entry
\* that sets prerotation=false is never accepted (it is rejected with
\* CannotDeactivatePreRotation), so pre_rotation_active stays true over the
\* accepted entries.
C3_CannotDeactivate ==
    /\ (/\ entry # None
        /\ entry[1].parameters.prerotation = Some(FALSE)
        /\ \E i \in 1..Len(Earlier) : Earlier[i].parameters.prerotation = Some(TRUE))
       => result # "Ok"
    /\ (/\ ~Failed
        /\ \E i \in 1..Len(accepted) : accepted[i].parameters.prerotation = Some(TRUE))
       => pre_rotation_active

\* C4: an entry is accepted only if one of its proofs names a key of the
\* post-carry-forward update_keys and verifies; otherwise ingest fails with
\* InvalidProof, so nothing is accepted while no update_keys was ever set.
C4_ProofGate ==
    entry # None =>
        IF HasValidProof(entry[1], active_parameters.update_keys)
        THEN result # "InvalidProof"
        ELSE result = "InvalidProof"

\* C5: after N successful ingests the history holds exactly N entries, their
\* versionTime values strictly increase and their versionId numbers are
\* 1, 2, ..., N in order.
C5_VersionMonotonic ==
    /\ Len(processed_documents) = Len(accepted)
    /\ \A i \in 1..Len(processed_documents) :
          /\ Len(Split(processed_documents[i][1], DASH)) = 2
          /\ ParseU64(Split(processed_documents[i][1], DASH)[1]) = Some(i)
    /\ \A i \in 1..(Len(processed_documents) - 1) :
          processed_documents[i][2] < processed_documents[i + 1][2]

C5_Witness ==
    /\ Len(accepted) = 2
    /\ Len(processed_documents) = 2
    /\ processed_documents[1][2] < processed_documents[2][2]

\* C6: the length of the history equals current_version in every state;
\* current_version starts at 0 and changes only by +1, together with
\* exactly one append to the history.
C6_HistoryLength ==
    /\ current_version = 0
    /\ [](Len(processed_documents) = current_version)
    /\ [][current_version' # current_version
            => /\ current_version' = current_version + 1
               /\ Len(processed_documents') = Len(processed_documents) + 1
               /\ SubSeq(processed_documents', 1, Len(processed_documents))
                      = processed_documents]_vars

C6_Witness == Failed /\ current_version = 1 /\ Len(processed_documents) = 1

\* C7: the first entry is accepted only if the post-carry-forward scid is
\* set (else MissingSCID) and equals generate_scid of the entry (else
\* InvalidSCID), so the first accepted entry's scid is the SCID derived from
\* it; the SCID check runs only while current_version is 0.  (Only
\* resolve_did calls process_log_entry, and never again after an Err, so the
\* first entry always meets the parameters of DidResolver::new.)
C7_GenesisScid ==
    /\ Len(accepted) >= 1
          => accepted[1].parameters.scid = Some(generate_scid(accepted[1]))
    /\ result = "MissingSCID"
          => current_version = 0 /\ active_parameters.scid = None
    /\ result = "InvalidSCID"
          => /\ current_version = 0
             /\ active_parameters.scid # None
             /\ active_parameters.scid # Some(generate_scid(entry[1]))

C7_Witness ==
    /\ Len(accepted) = 2
    /\ accepted[1].parameters.scid = Some(generate_scid(accepted[1]))
    /\ accepted[2].parameters.scid # None
    /\ accepted[2].parameters.scid # Some(generate_scid(accepted[2]))

\* C8: a genesis entry with versionId "1-<entry hash>", its own SCID, a valid
\* self-signed proof and a versionTime not in the future is accepted by a
\* fresh verifier, whatever its other parameters (prerotation and
\* next_key_hashes included), and select() then returns its state.
C8_HappyPath ==
    (FirstEntry /\ WellFormedGenesis(entry[1]) /\ entry[1].version_time <= now)
        => /\ result = "Ok"
           /\ (request = Some([version_id |-> None, version_time |-> None])
                 /\ Len(accepted) = 1)
                 => outcome.doc = Some(entry[1].state)

\* C9: a first entry with update_keys=[K1], prerotation=true and
\* next_key_hashes=[H(K2)] is accepted; after it a second entry rotating to
\* [K2] is accepted and one rotating to a key outside the commitment is
\* rejected with InvalidPreRotationKey.
C9_PreRotationScenario ==
    LET announces(e) == /\ e.parameters.update_keys = Some(<<1>>)
                        /\ e.parameters.prerotation = Some(TRUE)
                        /\ e.parameters.next_key_hashes = Some(<<hash_key(2)>>)
        second == /\ entry # None
                  /\ Len(Earlier) = 1
                  /\ announces(Earlier[1])
                  /\ entry[1].version_id = VersionId(2, calculate_entry_hash(entry[1]))
                  /\ entry[1].version_time <= now
                  /\ entry[1].parameters.update_keys # None
    IN /\ (FirstEntry /\ announces(entry[1]) /\ WellFormedGenesis(entry[1])
             /\ entry[1].version_time <= now)
          => result = "Ok"
       /\ (second /\ entry[1].parameters.update_keys = Some(<<2>>))
          => result = "Ok"
       /\ (second /\ \E k \in ToSet(entry[1].parameters.update_keys[1]) : k # 2)
          => result = "InvalidPreRotationKey"

\* C10: the first entry whose ingest fails ends resolve_did with that very
\* error and no document, even when entries accepted before it could have
\* answered the request.
C10_AllOrNothing ==
    Failed => /\ pc = "done"
              /\ outcome.kind = "Err"
              /\ outcome.err = result
              /\ outcome.doc = None
              /\ request = None

C10_Witness ==
    /\ Failed
    /\ Len(accepted) >= 1
    /\ outcome.kind = "Err"
    /\ \E rq \in Requests :
          get_did_document(Self, rq.version_id, rq.version_time).err = "Ok"

\* the indices of the accepted entries not later than t
AcceptedBy(t) == {i \in 1..Len(accepted) : accepted[i].version_time <= t}

\* the indices of the accepted entries whose versionId is vid
AcceptedAs(vid) == {i \in 1..Len(accepted) : accepted[i].version_id = vid}

\* C11: with no version_id and version_time = t, get_did_document returns
\* the document of the accepted entry with the greatest versionTime <= t, and
\* VersionNotFound exactly when no accepted entry has versionTime <= t.
C11_SelectByTime ==
    (request # None /\ request[1].version_id = None /\ request[1].version_time # None)
        => LET S == AcceptedBy(request[1].version_time[1])
           IN IF S = {}
              THEN outcome.err = "VersionNotFound" /\ outcome.doc = None
              ELSE /\ outcome.err = "Ok"
                   /\ \E i \in S :
                         /\ \A j \in S : accepted[j].version_time <= accepted[i].version_time
                         /\ outcome.doc = Some(accepted[i].state)

C11_Witness ==
    /\ request # None /\ request[1].version_id = None /\ request[1].version_time # None
    /\ Len(accepted) = 2
    /\ accepted[1].state # accepted[2].state
    /\ AcceptedBy(request[1].version_time[1]) = {1}
    /\ outcome.doc = Some(accepted[1].state)

\* C12: with a version_id, get_did_document returns the document of the
\* accepted entry whose versionId equals it exactly and VersionNotFound when
\* there is none, whatever version_time comes with it.
C12_SelectById ==
    (request # None /\ request[1].version_id # None)
        => LET S == AcceptedAs(request[1].version_id[1])
           IN IF S = {}
              THEN outcome.err = "VersionNotFound" /\ outcome.doc = None
              ELSE /\ outcome.err = "Ok"
                   /\ \A i \in S : outcome.doc = Some(accepted[i].state)

C12_Witness ==
    /\ request # None /\ request[1].version_id # None
    /\ request[1].version_time # None
    /\ AcceptedBy(request[1].version_time[1]) = {}
    /\ Len(accepted) = 2
    /\ accepted[1].state # accepted[2].state
    /\ AcceptedAs(request[1].version_id[1]) = {1}
    /\ outcome.doc = Some(accepted[1].state)

\* C13: with neither argument, get_did_document returns the state of the
\* most recently accepted entry and NoDocumentFound exactly when nothing was
\* accepted; the history select reads holds exactly the accepted entries, in
\* order, and no rejected one.
C13_SelectDefault ==
    /\ processed_documents =
          [i \in 1..Len(accepted) |->
              <<accepted[i].version_id, accepted[i].version_time, accepted[i].state>>]
    /\ (request = Some([version_id |-> None, version_time |-> None]))
          => IF accepted = <<>>
             THEN outcome.err = "NoDocumentFound" /\ outcome.doc = None
             ELSE /\ outcome.err = "Ok"
                  /\ outcome.doc = Some(accepted[Len(accepted)].state)

C13_Witness ==
    /\ request = Some([version_id |-> None, version_time |-> None])
    /\ Len(accepted) = 2
    /\ accepted[1].state # accepted[2].state
    /\ outcome.doc = Some(accepted[2].state)

\* the entry with its proof list emptied
WithoutProof(e) == [e EXCEPT !.proof = <<>>]

\* the entry with versionId, parameters.scid and proof list blanked
ScidRelevant(e) ==
    [e EXCEPT !.version_id = <<>>, !.parameters.scid = None, !.proof = <<>>]

\* C14: two entries that are identical except in their proof list have the
\* same calculate_entry_hash.
C14_ProofIndependence ==
    (/\ pc = "done" /\ ret[1] = "calculate_entry_hash"
     /\ WithoutProof(args[1]) = WithoutProof(args[2]))
        => ret[2] = ret[3]

C14_Witness ==
    /\ pc = "done" /\ ret[1] = "calculate_entry_hash"
    /\ WithoutProof(args[1]) = WithoutProof(args[2])
    /\ args[1].proof # args[2].proof
    /\ ret[2] = ret[3]

\* C15: two entries that differ in versionId, versionTime (any two distinct
\* instants), parameters or state hash different bytes, so that with a
\* collision-free SHA-256 their calculate_entry_hash values differ: equal
\* entry hashes can only be a SHA-256 collision.
C15_ContentSensitivity ==
    (/\ pc = "done" /\ ret[1] = "calculate_entry_hash"
     /\ WithoutProof(args[1]) # WithoutProof(args[2])
     /\ ret[2] = ret[3])
        => CanonEntryWithoutProof(args[1]) # CanonEntryWithoutProof(args[2])

\* C16: after e.parameters.scid := generate_scid(e), verify_scid of that scid
\* and e is true; generate_scid is the same for entries that differ only in
\* versionId, parameters.scid and proof.
C16_ScidFixedPoint ==
    /\ (pc = "done" /\ ret[1] = "verify_scid") => ret[2] = TRUE
    /\ (/\ pc = "done" /\ ret[1] = "generate_scid"
        /\ ScidRelevant(args[1]) = ScidRelevant(args[2]))
          => ret[2] = ret[3]

C16_Witness ==
    /\ pc = "done" /\ ret[1] = "generate_scid"
    /\ ScidRelevant(args[1]) = ScidRelevant(args[2])
    /\ args[1].version_id # args[2].version_id
    /\ args[1].parameters.scid # args[2].parameters.scid
    /\ args[1].proof # args[2].proof
    /\ ret[2] = ret[3]

\* a TdwDid whose scid and domain hold neither ':' nor '/'
ValidTdwDid(d) ==
    /\ ~Contains(d.scid, COLON) /\ ~Contains(d.scid, SLASH)
    /\ ~Contains(d.domain, COLON) /\ ~Contains(d.domain, SLASH)

\* C17: for every valid TdwDid d, parse_and_validate_tdw_did(d.to_string())
\* succeeds and equals d in scid, domain, port and path.
C17_RoundTrip ==
    (pc = "done" /\ ret[1] = "to_string" /\ ValidTdwDid(args.did[1]))
        => ret[3] = [err |-> "Ok", value |-> args.did]

C17_Witness ==
    /\ pc = "done" /\ ret[1] = "to_string"
    /\ args.did[1].port # None
    /\ args.did[1].path # None
    /\ Contains(args.did[1].path[1], SLASH)
    /\ Contains(args.did[1].path[1], COLON)
    /\ ret[3].value = args.did

\* the authority of a DID string: what follows the scid segment, up to the
\* first '/'
Authority(did) ==
    LET parts == Split(did, COLON)
    IN SplitN2(Join(SubSeq(parts, 4, Len(parts)), COLON), SLASH)[1]

\* C18: parse_and_validate_tdw_did returns InvalidDIDFormat whenever the
\* first two ':'-segments are not "did" and "tdw", and whenever what follows
\* the first ':' of the authority is not a valid u16 port, an authority with
\* more than one ':' included.
C18_ParseRejection ==
    (pc = "done" /\ ret[1] = "parse_and_validate_tdw_did")
        => LET parts == Split(args.str[1], COLON)
               authority == SplitN2(Authority(args.str[1]), COLON)
           IN /\ (Len(parts) < 2 \/ parts[1] # DID \/ parts[2] # TDW)
                    => ret[2] = InvalidDIDFormat
              /\ (Len(parts) >= 4 /\ Len(authority) = 2 /\ ParseU16(authority[2]) = None)
                    => ret[2] = InvalidDIDFormat

\* C19: for every TdwDid, to_url yields scheme https, authority
\* <domain>[:<port>] and path /<path>/did.jsonl, or /.well-known/did.jsonl
\* when the path is absent.
C19_LogUrl ==
    (pc = "done" /\ ret[1] = "to_url")
        => LET d == args.did[1]
           IN /\ ret[2].scheme = HTTPS
              /\ ret[2].host = d.domain
              /\ ret[2].port = d.port
              /\ ret[2].path =
                    <<SLASH>> \o (IF d.path # None THEN d.path[1] ELSE WELL_KNOWN)
                              \o <<SLASH>> \o DID_JSONL

\* the error designated for the earliest step that entry e violates when it
\* follows the accepted entries `before` at instant utc_now, with the
\* post-carry-forward parameters params; Ok when it violates none
EarliestViolation(e, before, params, utc_now) ==
    LET parts == Split(e.version_id, DASH)
        prev == AsOf(Len(before))
        version_id ==
            IF Len(parts) # 2 \/ ParseU64(parts[1]) = None THEN "InvalidVersionId"
            ELSE IF ParseU64(parts[1]) # Some(Len(before) + 1) THEN "InvalidVersionNumber"
            ELSE IF parts[2] # calculate_entry_hash(e) THEN "InvalidEntryHash"
            ELSE "Ok"
        version_time ==
            IF before # <<>> /\ e.version_time <= before[Len(before)].version_time
            THEN "InvalidVersionTime"
            ELSE IF e.version_time > utc_now THEN "FutureVersionTime"
            ELSE "Ok"
        scid ==
            IF before # <<>> THEN "Ok"
            ELSE IF params.scid = None THEN "MissingSCID"
            ELSE IF params.scid # Some(generate_scid(e)) THEN "InvalidSCID"
            ELSE "Ok"
        pre_rotation ==
            IF /\ prev.pre_rotation_active
               /\ e.parameters.update_keys # None
               /\ \E k \in ToSet(e.parameters.update_keys[1]) :
                     hash_key(k) \notin prev.next_key_hashes
            THEN "InvalidPreRotationKey"
            ELSE "Ok"
    IN IF ~HasValidProof(e, params.update_keys) THEN "InvalidProof"
       ELSE IF version_id # "Ok" THEN version_id
       ELSE IF version_time # "Ok" THEN version_time
       ELSE IF scid # "Ok" THEN scid
       ELSE pre_rotation

\* C20: ingest runs carry-forward, proof verification, version-ID/hash
\* check, version-time check, SCID check (genesis only), pre-rotation check
\* and commit in that order: the error returned for an entry is the one
\* designated for the earliest step the entry violates.
C20_CheckOrder ==
    entry # None
        => result = EarliestViolation(entry[1], Earlier, active_parameters, now)

\* the three verdicts of the version-ID check
VersionIdErrors == {"InvalidVersionId", "InvalidVersionNumber", "InvalidEntryHash"}

\* C21: an entry whose versionId does not split on '-' into exactly two parts
\* with a u64 first part is rejected with InvalidVersionId; otherwise a number
\* other than current_version + 1 is rejected with InvalidVersionNumber;
\* otherwise a second part other than the recomputed entry hash is rejected
\* with InvalidEntryHash; an entry that passes all three gets none of them.
C21_VersionIdCheck ==
    entry # None =>
        LET e == entry[1]
            parts == Split(e.version_id, DASH)
        IN IF Len(parts) # 2 \/ ParseU64(parts[1]) = None
           THEN result = "InvalidVersionId"
           ELSE IF ParseU64(parts[1])[1] # Len(Earlier) + 1
           THEN result = "InvalidVersionNumber"
           ELSE IF parts[2] # calculate_entry_hash(e)
           THEN result = "InvalidEntryHash"
           ELSE result \notin VersionIdErrors

\* an entry with both a wrong number and a wrong hash is answered with the
\* verdict on the number
C21_Witness ==
    /\ entry # None
    /\ result = "InvalidVersionNumber"
    /\ LET parts == Split(entry[1].version_id, DASH)
       IN Len(parts) = 2 /\ parts[2] # calculate_entry_hash(entry[1])

\* a step of the replay loop: process_log_entry has returned for a new entry
Ingest == pc = "replay" /\ (accepted' # accepted \/ result' # result)

\* e passes the version-ID check as the successor of the history `before`
PassesVersionId(e, before) ==
    LET parts == Split(e.version_id, DASH)
    IN /\ Len(parts) = 2
       /\ ParseU64(parts[1]) = Some(Len(before) + 1)
       /\ parts[2] = calculate_entry_hash(e)

\* the two verdicts of the version-time check
VersionTimeErrors == {"InvalidVersionTime", "FutureVersionTime"}

\* C22: of the entries that reach the version-time check, one whose
\* versionTime is less than or equal to the last accepted versionTime is
\* rejected with InvalidVersionTime, whatever the clock reads; any other one,
\* the genesis included, whose versionTime is later than the clock is rejected
\* with FutureVersionTime; the rest get neither verdict.
C22_VersionTimeCheck ==
    [][(Ingest /\ PassesVersionId(entry'[1], accepted)) =>
          LET e == entry'[1]
          IN IF accepted # <<>> /\ e.version_time <= accepted[Len(accepted)].version_time
             THEN result' = "InvalidVersionTime"
             ELSE IF e.version_time > now
             THEN result' = "FutureVersionTime"
             ELSE result' \notin VersionTimeErrors]_vars

\* an entry that is both not later than its predecessor and ahead of the
\* clock is answered with the verdict on the regression
C22_Witness ==
    /\ Failed
    /\ result = "InvalidVersionTime"
    /\ accepted # <<>>
    /\ entry[1].version_time > now

\* the optional fields of DIDParameters
OptionalFields ==
    {"scid", "update_keys", "prerotation", "next_key_hashes", "portable", "witness",
     "deactivated", "ttl"}

\* C23: after an accepted entry, method is the entry's method, each optional
\* field of active_parameters that the entry sets has the entry's value and
\* each one it leaves unset keeps the value it had before; pre_rotation_active
\* and the tracked next_key_hashes set change only when the entry sets
\* prerotation / next_key_hashes, and then to the entry's value.
C23_CarryForward ==
    [][(Ingest /\ result' = "Ok") =>
          LET p == entry'[1].parameters
          IN /\ active_parameters'.method = p.method
             /\ \A f \in OptionalFields :
                   active_parameters'[f] = IF p[f] # None THEN p[f] ELSE active_parameters[f]
             /\ pre_rotation_active' =
                   IF p.prerotation # None THEN p.prerotation[1] ELSE pre_rotation_active
             /\ next_key_hashes' =
                   IF p.next_key_hashes # None THEN ToSet(p.next_key_hashes[1])
                   ELSE next_key_hashes]_vars

\* a second entry that sets a field of its own and leaves alone the ttl,
\* pre-rotation flag and key commitment published by the first
C23_Witness ==
    /\ Len(accepted) = 2
    /\ result = "Ok"
    /\ accepted[1].parameters.ttl # None
    /\ accepted[1].parameters.prerotation = Some(TRUE)
    /\ accepted[2].parameters.ttl = None
    /\ accepted[2].parameters.prerotation = None
    /\ accepted[2].parameters.next_key_hashes = None
    /\ accepted[2].parameters.witness # None
    /\ accepted[2].parameters.method # accepted[1].parameters.method
    /\ active_parameters.ttl = accepted[1].parameters.ttl
    /\ active_parameters.witness = accepted[2].parameters.witness
    /\ pre_rotation_active
    /\ next_key_hashes # {}

\* C24: an entry without update_keys is never rejected for their absence,
\* whatever its prerotation field says (InvalidLogEntry is the verdict that
\* handle_pre_rotation gives on absent keys), and once it is accepted the
\* active update_keys are those active before it.
C24_KeyInheritance ==
    (entry # None /\ entry[1].parameters.update_keys = None) =>
        /\ result # "InvalidLogEntry"
        /\ result = "Ok" =>
              active_parameters.update_keys = AsOf(Len(accepted) - 1).active_parameters.update_keys

\* the entries handed to process_log_entry so far, in order
Ingested == IF Failed THEN Append(accepted, entry[1]) ELSE accepted

\* the lines of the body that are the text of an entry, in file order
WellFormedLines == SelectSeq(did_log[1].lines, LAMBDA line : line.text = "entry")

\* C25: the entries ingested are the well-formed lines of the body in file
\* order (all of them once the loop is over, a prefix ending with the
\* rejected entry when one is rejected); a line that does not parse raises no
\* error and leaves the history and current_version alone, so that an entry
\* is accepted as version number-of-entries-before-it + 1 wherever its line
\* stands.
C25_MalformedSkipped ==
    did_log # None =>
        /\ Len(Ingested) <= Len(WellFormedLines)
        /\ \A i \in 1..Len(Ingested) : WellFormedLines[i].entry = Some(Ingested[i])
        /\ (pc = "done" /\ ~Failed) => Len(Ingested) = Len(WellFormedLines)
        /\ Len(Ingested) + Len(did_log[1].entries) = Len(WellFormedLines)
        /\ current_version = Len(accepted)
        /\ Len(processed_documents) = Len(accepted)
        /\ outcome.kind = "Err" => (Failed /\ outcome.err = result) \/ request # None

\* a body with an empty line between two entries, which are accepted as
\* versions 1 and 2
C25_Witness ==
    /\ did_log # None
    /\ Len(did_log[1].lines) = 3
    /\ did_log[1].lines[1].text = "entry"
    /\ did_log[1].lines[2].text = "empty"
    /\ did_log[1].lines[3].text = "entry"
    /\ Len(accepted) = 2
    /\ current_version = 2
    /\ outcome.kind = "Ok"

\* an entry with deactivated = true was accepted before the entry at hand
DeactivatedBefore ==
    \E i \in 1..Len(Earlier) : Earlier[i].parameters.deactivated = Some(TRUE)

\* C26: once an entry with deactivated = true has been accepted, an entry that
\* satisfies every ingest check is still accepted, and one that fails the
\* version-ID or version-time check is still rejected with that check's
\* verdict.
C26_DeactivationNotTerminal ==
    (entry # None /\ DeactivatedBefore) =>
        LET e == entry[1]
            regressed == e.version_time <= Earlier[Len(Earlier)].version_time
        IN /\ EarliestViolation(e, Earlier, active_parameters, now) = "Ok" => result = "Ok"
           /\ ~PassesVersionId(e, Earlier) => result \in VersionIdErrors
           /\ (PassesVersionId(e, Earlier) /\ regressed) => result = "InvalidVersionTime"
           /\ (PassesVersionId(e, Earlier) /\ ~regressed /\ e.version_time > now) =>
                 result = "FutureVersionTime"

\* a log that deactivates the DID in its first entry and takes the
\* deactivation back in its second: both are accepted
C26_Witness ==
    /\ Len(accepted) = 2
    /\ result = "Ok"
    /\ accepted[1].parameters.deactivated = Some(TRUE)
    /\ accepted[2].parameters.deactivated = Some(FALSE)
    /\ active_parameters.deactivated = Some(FALSE)

\* C27: whenever resolve_did(did, ..) returns a document, the scid component
\* of the parsed did is the parameters.scid verified for the genesis entry of
\* the log that was replayed.
C27_IdentifierBinding ==
    (outcome.kind = "Ok" /\ accepted # <<>>) =>
        Some(parse_and_validate_tdw_did(args.str[1]).value[1].scid)
            = accepted[1].parameters.scid

\* C28: the genesis entry create_did returns, pre-rotation enabled or not, is
\* accepted by process_log_entry on a fresh DidResolver: the hash part of its
\* versionId is calculate_entry_hash of the entry, its parameters.scid is
\* generate_scid of the entry, and it passes handle_pre_rotation.
C28_CreateVerifyRoundTrip ==
    (pc = "done" /\ ret # None) =>
        LET e == ret.log_entry
        IN /\ ret.verified = "Ok"
           /\ e.version_id = VersionId(1, calculate_entry_hash(e))
           /\ e.parameters.scid = Some(generate_scid(e))
           /\ handle_pre_rotation(update_parameters(DidResolver_new, e.parameters), e) = "Ok"

\* the verdicts of handle_pre_rotation
PreRotationErrors == {"InvalidLogEntry", "InvalidPreRotationKey", "MissingNextKeyHashes"}

C30_ScidStable ==
    (accepted # <<>> /\ ~Failed) => active_parameters.scid = accepted[1].parameters.scid

====
